---- MODULE Spec2Model ----
(***************************************************************************)
(* A model of graphrag-hybrid: the chunker and the front matter defaults  *)
(* of DocumentProcessor, the import of documents into the graph store      *)
(* (Neo4j) and the vector index (Qdrant), the operations of the query      *)
(* engine, the handles of the managers and the GraphRAGMCPTool.            *)
(***************************************************************************)
EXTENDS Integers, Sequences, FiniteSets, TLC

(***************************************************************************)
(* Bounds of the model.                                                    *)
(***************************************************************************)
\* Length of the longest text given to the chunker.
MaxLen == 150
\* Number of chunk identifiers (uuid4 values) the import runs may draw.
MaxUuid == 3
\* Number of files one import run reads.
MaxFiles == 1
\* Number of chunks the chunker returns for one file.
MaxChunksPerFile == 2
\* Number of document identifiers process_document may generate.
MaxGenDocs == 1
\* Number of files imported before the queries are made.
MaxQueryFiles == 2
\* Largest limit argument of a search.
MaxLimit == 3

(***************************************************************************)
(* Program constants.                                                      *)
(***************************************************************************)
\* document_processor.py:120  text.find('\n\n', end - 100, end + 100)
ParagraphWindow == 100
\* document_processor.py:125  text[end-50:end+50]
SentenceWindow == 50
\* neo4j_manager.py:101-102
doc_batch_size == 50
chunk_batch_size == 200
\* qdrant_manager.py:123
batch_size == 100
\* query_engine.py:154  get_related_documents(doc_id, limit=3)
RelatedLimit == 3
\* query_engine.py:167  graph_score = 0.5, in tenths
GraphScore == 5
\* 1.0, in tenths: scores and weights are counted in tenths and a
\* final_score, the product of two of them, in hundredths.
One == 10

Min(a, b) == IF a < b THEN a ELSE b
Max(a, b) == IF a > b THEN a ELSE b

(***************************************************************************)
(* Python string primitives used by _chunk_text.  A text is a sequence of  *)
(* one-character strings; offsets are Python's (0-based), so the           *)
(* character at offset i is s[i + 1].                                      *)
(***************************************************************************)
\* str.isspace() for one character.
IsSpace(c) == c \in {" ", "\n", "\t"}

\* A slice bound as Python normalises it: a negative bound counts from the
\* end of the string, and every bound is clamped to 0..len.
PyIndex(i, n) == IF i < 0 THEN Max(i + n, 0) ELSE Min(i, n)

\* str.find(sub, lo, hi) for sub = '\n\n': the lowest offset i with
\* s[i:i+2] = '\n\n' inside the slice s[lo:hi], or -1.
FindParagraph(s, lo, hi) ==
    LET n  == Len(s)
        a  == PyIndex(lo, n)
        b  == PyIndex(hi, n)
        at == {i \in a..(b - 2) : s[i + 1] = "\n" /\ s[i + 2] = "\n"}
    IN  IF at = {} THEN -1 ELSE CHOOSE i \in at : \A j \in at : i <= j

\* The offset just past the run of whitespace that starts at offset i,
\* not going beyond offset b (the greedy \s+ of the sentence pattern).
RECURSIVE SpaceRunEnd(_, _, _)
SpaceRunEnd(s, i, b) ==
    IF i < b /\ IsSpace(s[i + 1]) THEN SpaceRunEnd(s, i + 1, b) ELSE i

\* re.search(r'[.!?]\s+', s[lo:hi]).end(), relative to the start of the
\* slice as Python reports it, or -1 when there is no match.
SentenceMatchEnd(s, lo, hi) ==
    LET n  == Len(s)
        a  == PyIndex(lo, n)
        b  == PyIndex(hi, n)
        at == {i \in a..(b - 2) : s[i + 1] \in {".", "!", "?"} /\ IsSpace(s[i + 2])}
    IN  IF at = {} THEN -1
        ELSE LET i == CHOOSE k \in at : \A j \in at : k <= j
             IN  SpaceRunEnd(s, i + 1, b) - a

\* The first offset >= i holding no whitespace, at most b (str.lstrip).
RECURSIVE StripLeft(_, _, _)
StripLeft(s, i, b) ==
    IF i < b /\ IsSpace(s[i + 1]) THEN StripLeft(s, i + 1, b) ELSE i

\* The last offset <= b just past a character that is no whitespace, at
\* least a (str.rstrip).
RECURSIVE StripRight(_, _, _)
StripRight(s, a, b) ==
    IF a < b /\ IsSpace(s[b]) THEN StripRight(s, a, b - 1) ELSE b

\* s[lo:hi] as it is, not stripped.
StrippedSliceRaw(s, lo, hi) ==
    [ts |-> PyIndex(lo, Len(s)), te |-> Max(PyIndex(hi, Len(s)), PyIndex(lo, Len(s)))]

\* s[lo:hi].strip() as the pair of offsets of the stripped slice: the
\* chunk's string is the text between them (empty when ts = te).
StrippedSlice(s, lo, hi) ==
    LET n  == Len(s)
        a  == PyIndex(lo, n)
        b  == Max(PyIndex(hi, n), a)
        ts == StripLeft(s, a, b)
        te == StripRight(s, ts, b)
    IN  [ts |-> ts, te |-> te]

(***************************************************************************)
(* DocumentProcessor._chunk_text, one loop iteration per step.             *)
(***************************************************************************)
VARIABLES
    text,           \* the text being chunked
    chunk_size,     \* self.chunk_size
    chunk_overlap,  \* self.chunk_overlap
    start,          \* the loop's start offset
    chunks,         \* the chunks emitted so far, in order
    cpc             \* "loop" while the while loop runs, "done" after return

cvars == <<text, chunk_size, chunk_overlap, start, chunks, cpc>>

(***************************************************************************)
(* The two stores and the import run of scripts/import_docs.py.            *)
(***************************************************************************)
VARIABLES
    neo4j,          \* the graph store: nodes and relationships
    qdrant,         \* the vector index: the points of the collection
    next_uuid,      \* the next chunk identifier uuid4 yields
    next_doc,       \* the number of document identifiers generated so far
    ipc,            \* where main() of import_docs.py stands
    run_docs,       \* documents of the running import (process_directory)
    run_chunks,     \* chunks of the running import (process_directory)
    run_status,     \* how the last import run ended: "none" (it has not),
                    \* "ok", or the call that raised: "neo4j_error", "qdrant_error"
    import_log,     \* what happened inside the last import_chunks call: the
                    \* chunks whose embedding failed, and whether an upsert did
    source          \* the source file given to a direct call of
                    \* process_document, NoSource when there was none

ivars == <<neo4j, qdrant, next_uuid, next_doc, ipc, run_docs, run_chunks,
           run_status, import_log, source>>

(***************************************************************************)
(* The QueryEngine and its last call: the arguments, what semantic_search  *)
(* gave hybrid_search, the merged map and what the call returned.          *)
(***************************************************************************)
VARIABLES
    embedding_processor,  \* QueryEngine.embedding_processor is not None
    embedding_model,      \* QdrantManager.embedding_model is not None
    op,             \* the operation called last: "none", "hybrid_search",
                    \* "semantic_search", "category_search", "expand_context"
    q_limit,        \* its limit (context_size) argument
    q_weight,       \* its semantic_weight argument, in tenths
    q_chunk,        \* its chunk_id argument
    sem_results,    \* semantic_results of hybrid_search
    result_map,     \* result_map of hybrid_search, in insertion order
    results,        \* the list the operation returned
    context,        \* the dict expand_context returned: {} is the empty dict
    raised,         \* the operation raised to its caller
    failed,         \* the adapter calls of the operation that failed
    qdrant_calls,   \* the QdrantManager calls made during the operation
    graph_calls     \* the Neo4jManager lookups made during the operation

qvars == <<embedding_processor, embedding_model, op, q_limit, q_weight, q_chunk,
           sem_results, result_map, results, context, raised, failed,
           qdrant_calls, graph_calls>>

(***************************************************************************)
(* The handles of the managers, the embedding model, and the                *)
(* GraphRAGMCPTool that owns them.                                          *)
(***************************************************************************)
VARIABLES
    driver,         \* Neo4jManager.driver: "none" (None), "open", or "closed"
                    \* (a driver object on which close() was called)
    client,         \* QdrantManager.client: "none" (None) or "open"
    model,          \* EmbeddingProcessor.model and tokenizer are loaded
    tool,           \* the GraphRAGMCPTool: "none" (not constructed), "open",
                    \* "closed" (close() was called)
    engine,         \* the handles the last QueryEngine was left with by its
                    \* constructor, NoEngine when none was constructed
    response        \* the response of the last GraphRAGMCPTool.search

tvars == <<driver, client, model, tool, engine, response>>

vars == <<cvars, ivars, qvars, tvars>>

NoEngine == [driver |-> "none", client |-> "none"]
NoResponse == [results |-> -1, result_count |-> -1, search_type |-> "", error |-> FALSE]

\* No manager is connected, no model loaded, no tool constructed.
ToolIdle ==
    /\ driver = "none"
    /\ client = "none"
    /\ model = FALSE
    /\ tool = "none"
    /\ engine = NoEngine
    /\ response = NoResponse

\* A graph store with no node and no relationship.
EmptyGraph ==
    [documents |-> {}, chunks |-> {}, has_chunk |-> {}, next |-> {}, related_to |-> {}]

\* No source file.
NoSource == [front |-> FALSE, id |-> "", category |-> "", dir |-> "", n |-> -1]

\* import_chunks has not run, or nothing failed in it.
NoImportLog == [embed_failed |-> {}, upsert_failed |-> FALSE]

\* Nothing imported and no import running.
ImportIdle ==
    /\ neo4j = EmptyGraph
    /\ qdrant = {}
    /\ next_uuid = 1
    /\ next_doc = 0
    /\ ipc = "idle"
    /\ run_docs = <<>>
    /\ run_chunks = <<>>
    /\ run_status = "none"
    /\ import_log = NoImportLog
    /\ source = NoSource

\* No call of the QueryEngine is running or has left its outcome.
NoCall ==
    /\ op = "none"
    /\ q_limit = 0
    /\ q_weight = 0
    /\ q_chunk = 0
    /\ sem_results = <<>>
    /\ result_map = <<>>
    /\ results = <<>>
    /\ context = {}
    /\ raised = FALSE
    /\ failed = {}
    /\ qdrant_calls = {}
    /\ graph_calls = {}

\* No query has been made; the embedding processor is given to both
\* constructors, as the scripts do (import_docs.py, lines 108-111).
QueryIdle ==
    /\ NoCall
    /\ embedding_processor = TRUE
    /\ embedding_model = TRUE

\* The texts given to the chunker: length n, 'a' everywhere except a
\* paragraph break at offset p (p >= 0), a sentence end ". " at offset q
\* (q >= 0) and, with ws, a blank first and last character.
TextOf(n, p, q, ws) ==
    [i \in 1..n |->
        IF p >= 0 /\ i - 1 \in {p, p + 1} THEN "\n"
        ELSE IF q >= 0 /\ i - 1 = q THEN "."
        ELSE IF q >= 0 /\ i - 1 = q + 1 THEN " "
        ELSE IF ws /\ i \in {1, n} THEN " "
        ELSE "a"]

TextLens == {0, 1, 30, 49, 60, MaxLen}
ParagraphAt == {-1} \cup {10 * k : k \in 0..(MaxLen \div 10)}
SentenceAt == {-1, 20, 70}
\* (chunk_size, chunk_overlap) as configured.
ChunkConfigs == {<<50, 10>>, <<50, 0>>, <<50, 49>>, <<5, 7>>}

\* The end offset _chunk_text chooses for the chunk starting at st.
ChosenEnd(s, st, size) ==
    LET n    == Len(s)
        end0 == Min(st + size, n)
    IN  IF end0 < n
        THEN LET pb == FindParagraph(s, end0 - ParagraphWindow, end0 + ParagraphWindow)
             IN  IF pb # -1 THEN pb + 2
                 ELSE LET sb == SentenceMatchEnd(s, end0 - SentenceWindow,
                                                 end0 + SentenceWindow)
                      IN  IF sb # -1 THEN end0 - SentenceWindow + sb ELSE end0
        ELSE end0

\* The next start without the guard of max: end - overlap.
NextStartUnguarded(st, end, overlap) == end - overlap

\* The start offset of the next iteration.
NextStart(st, end, overlap) == Max(end - overlap, st + 1)

ChunkInit ==
    /\ \E n \in TextLens, p \in ParagraphAt, q \in SentenceAt, ws \in BOOLEAN :
          /\ p = -1 \/ p + 2 <= n
          /\ q = -1 \/ (q + 2 <= n /\ q + 1 < p) \/ (q + 2 <= n /\ q > p + 1)
          /\ text = TextOf(n, p, q, ws)
    /\ \E c \in ChunkConfigs : chunk_size = c[1] /\ chunk_overlap = c[2]
    /\ start = 0
    /\ chunks = <<>>
    /\ cpc = "loop"
    /\ ImportIdle
    /\ QueryIdle
    /\ ToolIdle

\* One iteration of the while loop (lines 113-136).
ChunkStep ==
    /\ cpc = "loop"
    /\ start < Len(text)
    /\ LET end == ChosenEnd(text, start, chunk_size)
           sl  == StrippedSlice(text, start, end)
       IN  /\ chunks' = IF sl.ts < sl.te
                        THEN Append(chunks, [start |-> start, end |-> end,
                                             ts |-> sl.ts, te |-> sl.te])
                        ELSE chunks
           /\ start' = NextStart(start, end, chunk_overlap)
    /\ UNCHANGED <<text, chunk_size, chunk_overlap, cpc>>
    /\ UNCHANGED <<ivars, qvars, tvars>>

\* The loop condition fails: return chunks (line 138).
ChunkReturn ==
    /\ cpc = "loop"
    /\ start >= Len(text)
    /\ cpc' = "done"
    /\ UNCHANGED <<text, chunk_size, chunk_overlap, start, chunks>>
    /\ UNCHANGED <<ivars, qvars, tvars>>

ChunkNext == ChunkStep \/ ChunkReturn

SpecChunk == ChunkInit /\ [][ChunkNext]_vars

\* The calls of _chunk_text whose runs are followed to their end: texts
\* with and without a paragraph break, under every configuration.
ChunkInitFair ==
    /\ \E n \in {1, 60, MaxLen}, p \in {-1, 40, 100}, ws \in BOOLEAN :
          /\ p = -1 \/ p + 2 <= n
          /\ text = TextOf(n, p, -1, ws)
    /\ \E c \in ChunkConfigs : chunk_size = c[1] /\ chunk_overlap = c[2]
    /\ start = 0
    /\ chunks = <<>>
    /\ cpc = "loop"
    /\ ImportIdle
    /\ QueryIdle
    /\ ToolIdle

\* The interpreter runs the loop on: a call of _chunk_text that can take a
\* step takes it.
SpecChunkFair == ChunkInitFair /\ [][ChunkNext]_vars /\ WF_vars(ChunkNext)

(***************************************************************************)
(* DocumentProcessor.process_directory and process_document.  A file is    *)
(* what the run reads of it: the id and category of its front matter and   *)
(* the number of chunks _chunk_text returns for its text.  A file whose    *)
(* processing raises is skipped (lines 171-172), as if it were not there.  *)
(***************************************************************************)
\* The front matter gives no id.
NoId == "<no id>"
\* The ids front matter may give; "" is an id that Python takes as false.
FrontIds == {"", "a", "b"}
\* f"doc_{uuid.uuid4().hex[:8]}", in the order generated.
GenDocIds == <<"doc_1", "doc_2", "doc_3">>
Categories == {"c1", "c2"}
Files == [id : FrontIds \cup {NoId}, category : Categories, n : 0..MaxChunksPerFile]

\* process_document: the metadata and chunk objects of one file, with uuid
\* the next chunk identifier and gen the number of generated document ids.
ProcessDocument(f, uuid, gen) ==
    LET id == IF f.id = NoId THEN GenDocIds[gen + 1] ELSE f.id
    IN  [metadata |-> [id |-> id, category |-> f.category],
         chunk_objects |->
            [i \in 1..f.n |-> [id |-> uuid + i - 1, doc_id |-> id,
                               position |-> i - 1, category |-> f.category]],
         uuid |-> uuid + f.n,
         gen |-> IF f.id = NoId THEN gen + 1 ELSE gen]

\* process_directory: all_docs and all_chunks of the files from the i-th on.
RECURSIVE ProcessDirectory(_, _, _, _)
ProcessDirectory(files, i, uuid, gen) ==
    IF i > Len(files)
    THEN [all_docs |-> <<>>, all_chunks |-> <<>>, uuid |-> uuid, gen |-> gen]
    ELSE LET d    == ProcessDocument(files[i], uuid, gen)
             rest == ProcessDirectory(files, i + 1, d.uuid, d.gen)
         IN  [all_docs |-> <<d.metadata>> \o rest.all_docs,
              all_chunks |-> d.chunk_objects \o rest.all_chunks,
              uuid |-> rest.uuid, gen |-> rest.gen]

\* A key the front matter does not have.
NoCategory == "<no category>"
\* The names of the directory a file lies in; '' for a file given by its
\* bare name.
DirNames == {"", "docs", "notes"}

\* The source files given to process_document: front says whether the file
\* starts with YAML front matter that parses to a dict, id and category
\* are what that dict gives (NoId, NoCategory: it has no such key), dir is
\* the name of the file's directory and n the number of chunks of its text.
SourceFiles ==
    {sf \in [front : BOOLEAN, id : FrontIds \cup {NoId},
             category : Categories \cup {"", NoCategory}, dir : DirNames,
             n : 0..MaxChunksPerFile] :
        ~sf.front => (sf.id = NoId /\ sf.category = NoCategory)}

\* _extract_front_matter (lines 80-98): the dict of the front matter, or
\* {'title': '', 'category': ''} when there is none.
ExtractFrontMatter(sf) ==
    IF sf.front THEN [id |-> sf.id, category |-> sf.category]
    ELSE [id |-> NoId, category |-> ""]

\* Lines 57-59: the name of the file's directory, or 'uncategorized'.
DefaultCategory(dir) == IF dir # "" THEN dir ELSE "uncategorized"

\* Lines 40-59: the id and category process_document works with, as a
\* file of the run: the category defaults when the key is not in metadata.
FileOf(sf) ==
    LET metadata == ExtractFrontMatter(sf)
    IN  [id |-> metadata.id,
         category |-> IF metadata.category = NoCategory
                      THEN DefaultCategory(sf.dir) ELSE metadata.category,
         n |-> sf.n]

\* A call of process_document on a source file (lines 23-78); what it
\* returns is kept in run_docs and run_chunks.
ProcessDocumentCall(sf) ==
    /\ ipc = "idle"
    /\ source = NoSource
    /\ run_status = "none"
    /\ LET d == ProcessDocument(FileOf(sf), next_uuid, next_doc)
       IN  /\ run_docs' = <<d.metadata>>
           /\ run_chunks' = d.chunk_objects
           /\ next_uuid' = d.uuid
           /\ next_doc' = d.gen
    /\ source' = sf
    /\ UNCHANGED <<neo4j, qdrant, ipc, run_status, import_log>>
    /\ UNCHANGED <<cvars, qvars, tvars>>

\* The number of document ids a list of files makes process_document generate.
RECURSIVE NoIdCount(_, _)
NoIdCount(files, i) ==
    IF i > Len(files) THEN 0
    ELSE (IF files[i].id = NoId THEN 1 ELSE 0) + NoIdCount(files, i + 1)

RECURSIVE ChunkCount(_, _)
ChunkCount(files, i) ==
    IF i > Len(files) THEN 0 ELSE files[i].n + ChunkCount(files, i + 1)

(***************************************************************************)
(* Neo4jManager: the Cypher statements of import_documents.                *)
(***************************************************************************)
\* A property a node does not have.
Null == "<null>"
\* Cypher's = in a WHERE clause: a comparison with null is not true.
CypherEq(a, b) == a # Null /\ b # Null /\ a = b

\* MERGE (d:Document {id: doc.id}) SET d += doc
MergeDocument(g, doc) ==
    [g EXCEPT !.documents =
        {d \in @ : d.id # doc.id} \cup {[id |-> doc.id, category |-> doc.category]}]

\* _create_documents_batch: UNWIND $documents, row by row.
RECURSIVE CreateDocumentsBatch(_, _, _)
CreateDocumentsBatch(g, docs, i) ==
    IF i > Len(docs) THEN g
    ELSE CreateDocumentsBatch(MergeDocument(g, docs[i]), docs, i + 1)

\* The properties a Chunk node gets: MERGE sets id, SET sets text and
\* position; doc_id of the chunk object is not stored on the node.
ChunkNode(chunk) == [id |-> chunk.id, position |-> chunk.position, doc_id |-> Null]

\* _create_chunks_batch: the Chunk nodes are merged, each is linked by
\* HAS_CHUNK to the Document with its doc_id, and by NEXT from every Chunk
\* node whose doc_id and position match its predecessor's.
CreateChunksBatch(g, batch) ==
    LET rows   == {batch[i] : i \in 1..Len(batch)}
        nodes  == {c \in g.chunks : \A r \in rows : r.id # c.id}
                    \cup {ChunkNode(r) : r \in rows}
        linked == {r \in rows : \E d \in g.documents : d.id = r.doc_id}
    IN  [g EXCEPT
            !.chunks = nodes,
            !.has_chunk = @ \cup {<<r.doc_id, r.id>> : r \in linked},
            !.next = @ \cup
                {<<y[1].id, y[2].id>> : y \in
                    {x \in nodes \X linked :
                        /\ CypherEq(x[1].doc_id, x[2].doc_id)
                        /\ CypherEq(x[1].position, x[2].position - 1)}}]

\* MATCH (d1:Document), (d2:Document)
\* WHERE d1.category = d2.category AND d1.id <> d2.id
\* MERGE (d1)-[:RELATED_TO]->(d2)
CreateRelated(g) ==
    [g EXCEPT !.related_to = @ \cup
        {<<x[1].id, x[2].id>> : x \in
            {y \in g.documents \X g.documents :
                CypherEq(y[1].category, y[2].category) /\ y[1].id # y[2].id}}]

\* The batches of import_documents: items i, i + size, ... of a list.
RECURSIVE DocumentBatches(_, _, _)
DocumentBatches(g, docs, i) ==
    IF i > Len(docs) THEN g
    ELSE DocumentBatches(
            CreateDocumentsBatch(g, SubSeq(docs, i, Min(i + doc_batch_size - 1, Len(docs))), 1),
            docs, i + doc_batch_size)

RECURSIVE ChunkBatches(_, _, _)
ChunkBatches(g, cs, i) ==
    IF i > Len(cs) THEN g
    ELSE ChunkBatches(
            CreateChunksBatch(g, SubSeq(cs, i, Min(i + chunk_batch_size - 1, Len(cs)))),
            cs, i + chunk_batch_size)

(***************************************************************************)
(* QdrantManager.import_chunks.                                            *)
(***************************************************************************)
\* The point of a chunk: its id, and the payload (doc_id, position and the
\* document's metadata; the text and the vector are carried along).
PointOf(chunk) ==
    [id |-> chunk.id, doc_id |-> chunk.doc_id, position |-> chunk.position,
     category |-> chunk.category]

\* client.upsert: a point replaces the stored point with its id.
Upsert(points, batch) ==
    LET new == {batch[i] : i \in 1..Len(batch)}
    IN  {p \in points : \A q \in new : q.id # p.id} \cup new

\* What EmbeddingProcessor.get_embedding does for one text
\* (embedding_processor.py 66-122): "vector", it returns the embedding;
\* "zero", tokenizer or model failed on the text, the except branch logs
\* the error and returns the zero vector (119-122); "raise", the model was
\* not loaded and load_model raised (68-69, outside the try).
EmbedOutcomes == {"vector", "zero", "raise"}
\* The outcomes of a call made after main has loaded the model
\* (import_docs.py 109): get_embedding does not call load_model.
LoadedEmbedOutcomes == {"vector", "zero"}

\* import_chunks from the i-th chunk on, with the points collected so far
\* (lines 127-172).  embed[i] is what get_embedding does for the i-th
\* chunk: a chunk for which it raises is skipped (129-133), a chunk for
\* which it returns a vector, the zero vector included, is made a point.
\* upserts counts the upsert calls made so far; the call numbered fail_at
\* raises (0: none does).  The result is the collection and whether
\* import_chunks raised.
RECURSIVE ImportChunksFrom(_, _, _, _, _, _, _)
ImportChunksFrom(stored, cs, embed, i, points, upserts, fail_at) ==
    IF i > Len(cs)
    THEN IF points = <<>> THEN [points |-> stored, raised |-> FALSE]
         ELSE IF upserts + 1 = fail_at THEN [points |-> stored, raised |-> TRUE]
         ELSE [points |-> Upsert(stored, points), raised |-> FALSE]
    ELSE IF embed[i] = "raise"
    THEN ImportChunksFrom(stored, cs, embed, i + 1, points, upserts, fail_at)
    ELSE LET batch == Append(points, PointOf(cs[i]))
         IN  IF Len(batch) >= batch_size
             THEN IF upserts + 1 = fail_at
                  THEN [points |-> stored, raised |-> TRUE]
                  ELSE ImportChunksFrom(Upsert(stored, batch), cs, embed, i + 1, <<>>,
                                        upserts + 1, fail_at)
             ELSE ImportChunksFrom(stored, cs, embed, i + 1, batch, upserts, fail_at)

\* The embedding succeeds for every chunk of cs.
AllEmbedded(cs) == [i \in 1..Len(cs) |-> "vector"]

(***************************************************************************)
(* main() of scripts/import_docs.py.                                       *)
(***************************************************************************)
FileLists == UNION {[1..k -> Files] : k \in 0..MaxFiles}

\* Lines 128-137 (--clear): clear_database, then clear_collection.
MainClear ==
    /\ ipc = "idle"
    /\ neo4j' = EmptyGraph
    /\ qdrant' = {}
    /\ run_status' = "none"
    /\ UNCHANGED <<next_uuid, next_doc, ipc, run_docs, run_chunks, import_log, source>>
    /\ UNCHANGED <<cvars, qvars, tvars>>

\* Lines 147-167: process_directory; the run returns 0 at once when there
\* are no documents or no chunks.
MainProcess(files) ==
    /\ ipc = "idle"
    /\ next_uuid + ChunkCount(files, 1) <= MaxUuid + 1
    /\ next_doc + NoIdCount(files, 1) <= MaxGenDocs
    /\ LET r == ProcessDirectory(files, 1, next_uuid, next_doc)
           nothing == r.all_docs = <<>> \/ r.all_chunks = <<>>
       IN  /\ next_uuid' = r.uuid
           /\ next_doc' = r.gen
           /\ run_docs' = IF nothing THEN <<>> ELSE r.all_docs
           /\ run_chunks' = IF nothing THEN <<>> ELSE r.all_chunks
           /\ ipc' = IF nothing THEN "idle" ELSE "neo4j"
           /\ run_status' = IF nothing THEN "ok" ELSE "none"
    /\ import_log' = NoImportLog
    /\ UNCHANGED <<neo4j, qdrant, source>>
    /\ UNCHANGED <<cvars, qvars, tvars>>

\* Neo4jManager.import_documents (main, line 171).  Every statement commits
\* on its own; fail_at names the statement that raises, if one does, and
\* main then logs the error and returns 1 (lines 186-188).
ImportDocuments(fail_at) ==
    /\ ipc = "neo4j"
    /\ LET g1 == DocumentBatches(neo4j, run_docs, 1)
           g2 == ChunkBatches(g1, run_chunks, 1)
           g3 == CreateRelated(g2)
       IN  neo4j' = CASE fail_at = "documents" -> neo4j
                      [] fail_at = "chunks" -> g1
                      [] fail_at = "related" -> g2
                      [] OTHER -> g3
    /\ ipc' = IF fail_at = "none" THEN "qdrant" ELSE "idle"
    /\ run_status' = IF fail_at = "none" THEN "none" ELSE "neo4j_error"
    /\ run_docs' = IF fail_at = "none" THEN run_docs ELSE <<>>
    /\ run_chunks' = IF fail_at = "none" THEN run_chunks ELSE <<>>
    /\ UNCHANGED <<qdrant, next_uuid, next_doc, import_log, source>>
    /\ UNCHANGED <<cvars, qvars, tvars>>

\* QdrantManager.import_chunks (main, line 175), then the end of the run:
\* return 0, or 1 when import_chunks raised.  The model is loaded, so
\* get_embedding returns for every chunk.
ImportChunks(fail_at) ==
    /\ ipc = "qdrant"
    /\ \E embed \in [1..Len(run_chunks) -> LoadedEmbedOutcomes] :
          LET r == ImportChunksFrom(qdrant, run_chunks, embed, 1, <<>>, 0, fail_at)
          IN  /\ qdrant' = r.points
              /\ run_status' = IF r.raised THEN "qdrant_error" ELSE "ok"
              /\ import_log' =
                    [embed_failed |-> {run_chunks[i].id : i \in
                                          {j \in 1..Len(run_chunks) : embed[j] # "vector"}},
                     upsert_failed |-> r.raised]
    /\ ipc' = "idle"
    /\ run_docs' = <<>>
    /\ run_chunks' = <<>>
    /\ UNCHANGED <<neo4j, next_uuid, next_doc, source>>
    /\ UNCHANGED <<cvars, qvars, tvars>>

\* No text is being chunked.
ChunkerIdle ==
    /\ text = <<>>
    /\ chunk_size = 600
    /\ chunk_overlap = 100
    /\ start = 0
    /\ chunks = <<>>
    /\ cpc = "done"

Init == ChunkerIdle /\ ImportIdle /\ QueryIdle /\ ToolIdle

Next ==
    \/ MainClear
    \/ \E files \in FileLists : MainProcess(files)
    \/ \E fail_at \in {"none", "documents", "chunks", "related"} : ImportDocuments(fail_at)
    \/ \E fail_at \in {0, 1} : ImportChunks(fail_at)

Spec == Init /\ [][Next]_vars

\* process_document called on one source file.
DocNext == \E sf \in SourceFiles : ProcessDocumentCall(sf)

SpecDoc == Init /\ [][DocNext]_vars

(***************************************************************************)
(* Neo4jManager: the lookups of the query engine.  A lookup that may find  *)
(* nothing returns a set of at most one record (None is the empty set).    *)
(* The store returns unordered matches in its scan order: dscan lists the  *)
(* document ids and cscan the chunk ids in that order.  A lookup whose      *)
(* statement fails logs the error and returns None or [], which is its     *)
(* answer on a store that holds nothing.                                    *)
(***************************************************************************)
\* Python's truth value of an id or a category: None and '' are false.
Truthy(x) == x # ""

Perms(S) == {f \in [1..Cardinality(S) -> S] : \A i, j \in 1..Cardinality(S) : f[i] = f[j] => i = j}

\* get_document_by_id
GetDocumentById(g, doc_id) == {d \in g.documents : d.id = doc_id}

\* get_related_documents: MATCH (d {id: $id})-[:RELATED_TO]->(related)
\* RETURN related LIMIT $limit
GetRelatedDocuments(g, doc_id, limit, dscan) ==
    LET IsRelated(id) == <<doc_id, id>> \in g.related_to
        ids == SelectSeq(dscan, IsRelated)
    IN  [i \in 1..Min(limit, Len(ids)) |-> CHOOSE d \in g.documents : d.id = ids[i]]

\* A list of chunk nodes in ascending order of position, chunks with equal
\* positions in the order of the list (ORDER BY c.position).
RECURSIVE SortByPosition(_)
SortByPosition(cs) ==
    IF cs = <<>> THEN <<>>
    ELSE LET rest == SortByPosition(SubSeq(cs, 1, Len(cs) - 1))
             x    == cs[Len(cs)]
             k    == Cardinality({i \in 1..Len(rest) : rest[i].position <= x.position})
         IN  SubSeq(rest, 1, k) \o <<x>> \o SubSeq(rest, k + 1, Len(rest))

\* get_document_chunks: MATCH (d {id: $id})-[:HAS_CHUNK]->(c) RETURN c
\* ORDER BY c.position
GetDocumentChunks(g, doc_id, cscan) ==
    LET IsChunk(id) == <<doc_id, id>> \in g.has_chunk
        ids == SelectSeq(cscan, IsChunk)
    IN  SortByPosition([i \in 1..Len(ids) |-> CHOOSE c \in g.chunks : c.id = ids[i]])

\* The scan orders that can make a difference: one when no document has
\* two related documents (no two chunks of a document one position).
DocScans(g) ==
    LET ids == {d.id : d \in g.documents}
    IN  IF \A d \in ids : Cardinality({r \in g.related_to : r[1] = d}) <= 1
        THEN {CHOOSE f \in Perms(ids) : TRUE}
        ELSE Perms(ids)

ChunkScans(g) ==
    LET ids == {c.id : c \in g.chunks}
    IN  IF \A h1, h2 \in g.has_chunk :
              (h1[1] = h2[1] /\ h1[2] # h2[2]) =>
                  \A c1, c2 \in g.chunks :
                      (c1.id = h1[2] /\ c2.id = h2[2]) => c1.position # c2.position
        THEN {CHOOSE f \in Perms(ids) : TRUE}
        ELSE Perms(ids)

\* get_chunk_context: the statement is no f-string and reaches the server
\* with the text '*1..{context_size}' in both patterns (lines 258-264), which
\* is no Cypher: session.run raises, the method logs the error and returns
\* None (lines 274-276), whatever the chunk and the size.
GetChunkContext(g, chunk_id, context_size) == {}

\* The lookups that fail on every call.
FailingLookups == {"get_chunk_context"}

\* get_document_by_chunk_id: MATCH (d:Document)-[:HAS_CHUNK]->(c:Chunk {id: $id})
GetDocumentByChunkId(g, chunk_id) ==
    {d \in g.documents : <<d.id, chunk_id>> \in g.has_chunk}

\* search_by_category: MATCH (d:Document) WHERE d.category = $category
\* RETURN d LIMIT $limit
SearchByCategory(g, category, limit, dscan) ==
    LET InCategory(id) == \E d \in g.documents : d.id = id /\ CypherEq(d.category, category)
        ids == SelectSeq(dscan, InCategory)
    IN  [i \in 1..Min(limit, Len(ids)) |-> CHOOSE d \in g.documents : d.id = ids[i]]

\* get_all_categories: MATCH (d:Document) RETURN DISTINCT d.category, the
\* categories in the order the scan meets them first.
RECURSIVE GetAllCategories(_, _, _)
GetAllCategories(g, dscan, i) ==
    IF i > Len(dscan) THEN <<>>
    ELSE LET d    == CHOOSE x \in g.documents : x.id = dscan[i]
             seen == \E j \in 1..(i - 1) :
                        \E x \in g.documents : x.id = dscan[j] /\ x.category = d.category
         IN  (IF seen THEN <<>> ELSE <<d.category>>) \o GetAllCategories(g, dscan, i + 1)

\* Neo4jManager.get_statistics (lines 308-324): the three counts.
GraphStatistics(g) ==
    [document_count |-> Cardinality(g.documents),
     chunk_count |-> Cardinality(g.chunks),
     category_count |-> Cardinality({d.category : d \in g.documents} \ {Null})]

\* QdrantManager.get_statistics (lines 399-435): the number of vectors and
\* the estimate of the number of documents, from the doc_ids that are
\* true.
VectorStatistics(points) ==
    [vector_count |-> Cardinality(points),
     estimated_document_count |->
        Cardinality({p.doc_id : p \in {x \in points : Truthy(x.doc_id)}})]

\* The store as the lookups of one call see it: a lookup whose statement
\* fails answers as on a store that holds nothing.
Store(g, up) == IF up THEN g ELSE EmptyGraph

\* The lookups among calls that failed.
FailedLookups(calls, up) == IF up THEN calls \cap FailingLookups ELSE calls

(***************************************************************************)
(* QdrantManager.search.                                                   *)
(***************************************************************************)
\* Cosine similarities, in tenths (they lie in -10..10).
Scores == {-2, 5}

\* The answers of a search the client serves: the limit best points that
\* pass the category filter, best first, for some similarity of each point
\* to the query.
SearchAnswers(points, limit, category) ==
    LET pool == IF Truthy(category) THEN {p \in points : p.category = category}
                ELSE points
        k    == Min(limit, Cardinality(pool))
        hits == {h \in [1..k -> [point : pool, score : Scores]] :
                    /\ \A i, j \in 1..k : h[i].point = h[j].point => i = j
                    /\ \A i \in 1..(k - 1) : h[i].score >= h[i + 1].score}
    IN  {[i \in 1..k |-> [id |-> h[i].point.id, score |-> h[i].score,
                          doc_id |-> h[i].point.doc_id,
                          category |-> h[i].point.category]] : h \in hits}

\* The outcomes of search(query_text, limit, filter): it raises ValueError
\* when the manager has no embedding model (lines 190-191); it returns []
\* when the embedding or the client raises (lines 230-232), which is what
\* client_ok = FALSE stands for; or it returns the client's answer.
Search(points, has_model, client_ok, limit, category) ==
    IF ~has_model THEN {[raised |-> TRUE, failed |-> TRUE, results |-> <<>>]}
    ELSE IF ~client_ok THEN {[raised |-> FALSE, failed |-> TRUE, results |-> <<>>]}
    ELSE {[raised |-> FALSE, failed |-> FALSE, results |-> r] :
             r \in SearchAnswers(points, limit, category)}

(***************************************************************************)
(* QueryEngine.                                                            *)
(***************************************************************************)
\* semantic_search with the ValueError of search reaching the caller.
SemanticSearchUncaught(g, has_processor, search) ==
    IF ~has_processor
    THEN [results |-> <<>>, raised |-> FALSE, failed |-> {}, qdrant_calls |-> {},
          calls |-> {}]
    ELSE [results |->
            [i \in 1..Len(search.results) |->
                [id |-> search.results[i].id, score |-> search.results[i].score,
                 doc_id |-> search.results[i].doc_id,
                 document |-> GetDocumentById(g, search.results[i].doc_id)]],
          raised |-> search.raised,
          failed |-> IF search.failed THEN {"search"} ELSE {},
          qdrant_calls |-> {"search"},
          calls |-> IF search.results = <<>> THEN {}
                    ELSE {"get_document_by_id", "get_chunk_context"}]

\* semantic_search going on without an embedding processor.
SemanticSearchUnchecked(g, has_processor, search) ==
    [results |->
        [i \in 1..Len(search.results) |->
            [id |-> search.results[i].id, score |-> search.results[i].score,
             doc_id |-> search.results[i].doc_id,
             document |-> GetDocumentById(g, search.results[i].doc_id)]],
     raised |-> FALSE,
     failed |-> IF search.failed THEN {"search"} ELSE {},
     qdrant_calls |-> {"search"},
     calls |-> IF search.results = <<>> THEN {}
               ELSE {"get_document_by_id", "get_chunk_context"}]

\* semantic_search, given the outcome of its call of search: without an
\* embedding processor it returns [] before any call (lines 44-46); what
\* search raises is caught (lines 74-76); every search result gets the
\* Document of its doc_id, when there is one, and get_chunk_context is
\* called for it, which gives no context (lines 55-73).
SemanticSearch(g, has_processor, search) ==
    IF ~has_processor
    THEN [results |-> <<>>, raised |-> FALSE, failed |-> {}, qdrant_calls |-> {},
          calls |-> {}]
    ELSE IF search.raised
    THEN [results |-> <<>>, raised |-> FALSE, failed |-> {"search"},
          qdrant_calls |-> {"search"}, calls |-> {}]
    ELSE [results |->
            [i \in 1..Len(search.results) |->
                [id |-> search.results[i].id, score |-> search.results[i].score,
                 doc_id |-> search.results[i].doc_id,
                 document |-> GetDocumentById(g, search.results[i].doc_id)]],
          raised |-> FALSE,
          failed |-> IF search.failed THEN {"search"} ELSE {},
          qdrant_calls |-> {"search"},
          calls |-> IF search.results = <<>> THEN {}
                    ELSE {"get_document_by_id", "get_chunk_context"}]

\* A Python dict in insertion order: the list of its values, each holding
\* its key as id.
InDict(m, key) == \E i \in 1..Len(m) : m[i].id = key

DictSetAppend(m, e) == Append(m, e)

\* m[e.id] = e
DictSet(m, e) ==
    IF InDict(m, e.id)
    THEN [i \in 1..Len(m) |-> IF m[i].id = e.id THEN e ELSE m[i]]
    ELSE Append(m, e)

SemanticEntryUnweighted(r, weight) ==
    [id |-> r.id, doc_id |-> r.doc_id, semantic_score |-> r.score,
     graph_score |-> 0, final_score |-> r.score * One, document |-> r.document]

\* The entry of a semantic result (lines 142-151).
SemanticEntry(r, weight) ==
    [id |-> r.id, doc_id |-> r.doc_id, semantic_score |-> r.score,
     graph_score |-> 0, final_score |-> r.score * weight, document |-> r.document]

\* The graph entry with its graph score taken unweighted as final score.
GraphEntryUnweighted(rel_chunk, rel_doc, weight) ==
    [id |-> rel_chunk.id, doc_id |-> rel_doc.id, semantic_score |-> 0,
     graph_score |-> GraphScore, final_score |-> GraphScore * One,
     document |-> {rel_doc}]

\* The entry of the first chunk of a related document (lines 167-183).
GraphEntry(rel_chunk, rel_doc, weight) ==
    [id |-> rel_chunk.id, doc_id |-> rel_doc.id, semantic_score |-> 0,
     graph_score |-> GraphScore, final_score |-> GraphScore * (One - weight),
     document |-> {rel_doc}]

\* The expansion with the graph entry written whether or not the map holds
\* the chunk.
RECURSIVE ExpandRelatedOverwrite(_, _, _, _, _, _)
ExpandRelatedOverwrite(acc, related_docs, j, g, cscan, weight) ==
    IF j > Len(related_docs) THEN acc
    ELSE LET rel_doc == related_docs[j]
             rel_chunks == GetDocumentChunks(g, rel_doc.id, cscan)
             map == IF Truthy(rel_doc.id) /\ rel_chunks # <<>>
                    THEN DictSet(acc.map, GraphEntry(rel_chunks[1], rel_doc, weight))
                    ELSE acc.map
         IN  ExpandRelatedOverwrite([map |-> map, calls |-> acc.calls],
                                    related_docs, j + 1, g, cscan, weight)

\* Lines 157-183: the related documents from the j-th on.  acc holds the
\* result map and the lookups made so far.
RECURSIVE ExpandRelated(_, _, _, _, _, _)
ExpandRelated(acc, related_docs, j, g, cscan, weight) ==
    IF j > Len(related_docs) THEN acc
    ELSE LET rel_doc == related_docs[j]
         IN  IF ~Truthy(rel_doc.id)
             THEN ExpandRelated(acc, related_docs, j + 1, g, cscan, weight)
             ELSE LET rel_chunks == GetDocumentChunks(g, rel_doc.id, cscan)
                      calls == acc.calls \cup {"get_document_chunks"}
                      map == IF rel_chunks # <<>> /\ ~InDict(acc.map, rel_chunks[1].id)
                             THEN DictSet(acc.map, GraphEntry(rel_chunks[1], rel_doc, weight))
                             ELSE acc.map
                  IN  ExpandRelated([map |-> map, calls |-> calls],
                                    related_docs, j + 1, g, cscan, weight)

\* Lines 138-183: the semantic results from the i-th on.
RECURSIVE MergeResults(_, _, _, _, _, _, _)
MergeResults(acc, semantic_results, i, g, dscan, cscan, weight) ==
    IF i > Len(semantic_results) THEN acc
    ELSE LET sem_result == semantic_results[i]
         IN  IF ~Truthy(sem_result.doc_id)
             THEN MergeResults(acc, semantic_results, i + 1, g, dscan, cscan, weight)
             ELSE LET map == DictSet(acc.map, SemanticEntry(sem_result, weight))
                      related_docs ==
                          GetRelatedDocuments(g, sem_result.doc_id, RelatedLimit, dscan)
                      calls == acc.calls \cup {"get_related_documents"}
                  IN  MergeResults(
                          ExpandRelated([map |-> map, calls |-> calls],
                                        related_docs, 1, g, cscan, weight),
                          semantic_results, i + 1, g, dscan, cscan, weight)

SortByFinalScoreNone(rs) == rs

\* A descending sort that puts an entry before the earlier entries of
\* equal score.
RECURSIVE SortByFinalScoreUnstable(_)
SortByFinalScoreUnstable(rs) ==
    IF rs = <<>> THEN <<>>
    ELSE LET rest == SortByFinalScoreUnstable(SubSeq(rs, 1, Len(rs) - 1))
             x    == rs[Len(rs)]
             k    == Cardinality({i \in 1..Len(rest) : rest[i].final_score > x.final_score})
         IN  SubSeq(rest, 1, k) \o <<x>> \o SubSeq(rest, k + 1, Len(rest))

\* results.sort(key=final_score, reverse=True): descending, entries with
\* equal scores in their order in the list.
RECURSIVE SortByFinalScore(_)
SortByFinalScore(rs) ==
    IF rs = <<>> THEN <<>>
    ELSE LET rest == SortByFinalScore(SubSeq(rs, 1, Len(rs) - 1))
             x    == rs[Len(rs)]
             k    == Cardinality({i \in 1..Len(rest) : rest[i].final_score >= x.final_score})
         IN  SubSeq(rest, 1, k) \o <<x>> \o SubSeq(rest, k + 1, Len(rest))

TruncateNone(rs, limit) == rs

\* results[:limit]
Truncate(rs, limit) == SubSeq(rs, 1, PyIndex(limit, Len(rs)))

\* hybrid_search falling back on the first chunks of the stored documents
\* when there is no semantic result.
HybridSearchResultFallback(g, has_processor, search, limit, weight, dscan, cscan) ==
    LET sem == SemanticSearch(g, has_processor, search)
        seed == IF sem.results # <<>> THEN [map |-> <<>>, calls |-> sem.calls]
                ELSE ExpandRelated([map |-> <<>>, calls |-> sem.calls],
                        GetRelatedDocuments(
                            [g EXCEPT !.related_to = {<<"", d.id>> : d \in g.documents}],
                            "", Cardinality(g.documents), dscan),
                        1, g, cscan, weight)
        acc == MergeResults(seed, sem.results, 1, g, dscan, cscan, weight)
    IN  [semantic_results |-> sem.results, result_map |-> acc.map,
         results |-> Truncate(SortByFinalScore(acc.map), limit), calls |-> acc.calls,
         raised |-> FALSE, failed |-> sem.failed, qdrant_calls |-> sem.qdrant_calls]

\* hybrid_search, given the outcome of the call of search that
\* semantic_search makes with limit * 2.  What a call raises is caught and
\* [] returned (lines 190-192).
HybridSearchResult(g, has_processor, search, limit, weight, dscan, cscan) ==
    LET sem == SemanticSearch(g, has_processor, search)
    IN  IF sem.raised \/ sem.results = <<>>
        THEN [semantic_results |-> <<>>, result_map |-> <<>>, results |-> <<>>,
              calls |-> sem.calls, raised |-> FALSE, failed |-> sem.failed,
              qdrant_calls |-> sem.qdrant_calls]
        ELSE LET acc == MergeResults([map |-> <<>>, calls |-> sem.calls],
                                     sem.results, 1, g, dscan, cscan, weight)
             IN  [semantic_results |-> sem.results,
                  result_map |-> acc.map,
                  results |-> Truncate(SortByFinalScore(acc.map), limit),
                  calls |-> acc.calls, raised |-> FALSE, failed |-> sem.failed,
                  qdrant_calls |-> sem.qdrant_calls]

\* expand_context looking up the owning Document before it tests the
\* context.
ExpandContextResultEager(g, chunk_id, context_size) ==
    LET ctx == GetChunkContext(g, chunk_id, context_size)
        owner == GetDocumentByChunkId(g, chunk_id)
    IN  [context |-> {[center |-> c.center, previous |-> c.previous,
                       next |-> c.next, document |-> {}] : c \in ctx},
         calls |-> {"get_chunk_context", "get_document_by_chunk_id"}
                   \cup IF owner # {} THEN {"get_document_by_id"} ELSE {}]

\* expand_context (lines 198-218): without a context it returns {} before
\* any document lookup.  get_document_by_chunk_id returns the Document, and
\* that dict is what get_document_by_id is given as the id: no Document has
\* it, so that no 'document' entry is set.
ExpandContextResult(g, chunk_id, context_size) ==
    LET ctx == GetChunkContext(g, chunk_id, context_size)
    IN  IF ctx = {}
        THEN [context |-> {}, calls |-> {"get_chunk_context"}]
        ELSE LET owner == GetDocumentByChunkId(g, chunk_id)
             IN  [context |-> {[center |-> c.center, previous |-> c.previous,
                                next |-> c.next, document |-> {}] : c \in ctx},
                  calls |-> {"get_chunk_context", "get_document_by_chunk_id"}
                            \cup IF owner # {} THEN {"get_document_by_id"} ELSE {}]

\* The semantic_weight arguments, in tenths; 7 is the default.
Weights == {5, 7}
\* The category arguments: "" stands for None.
CategoryArgs == {"", "c1"}

\* The context_size arguments of expand_context.
ContextSizes == {0, 1, 2}

\* The engine is called by one thread: a call starts when none is running,
\* and op names the call whose outcome the query variables hold.  In each
\* call the vector client answers or raises (client_ok) and the statements
\* of the graph lookups run or fail (up).
HybridSearchCall(limit, category, weight, client_ok, up) ==
    /\ ipc = "idle"
    /\ op = "none"
    /\ \E dscan \in DocScans(neo4j), cscan \in ChunkScans(neo4j) :
          \E search \in Search(qdrant, embedding_model, client_ok, limit * 2, category) :
             LET r == HybridSearchResult(Store(neo4j, up), embedding_processor, search,
                                         limit, weight, dscan, cscan)
             IN  /\ sem_results' = r.semantic_results
                 /\ result_map' = r.result_map
                 /\ results' = r.results
                 /\ raised' = r.raised
                 /\ failed' = r.failed \cup FailedLookups(r.calls, up)
                 /\ qdrant_calls' = r.qdrant_calls
                 /\ graph_calls' = r.calls
    /\ op' = "hybrid_search"
    /\ q_limit' = limit
    /\ q_weight' = weight
    /\ UNCHANGED <<embedding_processor, embedding_model, q_chunk, context>>
    /\ UNCHANGED <<cvars, ivars>>

\* hybrid_search called on a QueryEngine directly.
HybridSearch(limit, category, weight) ==
    /\ \E client_ok \in BOOLEAN, up \in BOOLEAN :
          HybridSearchCall(limit, category, weight, client_ok, up)
    /\ UNCHANGED tvars

SemanticSearchCall(limit, category, client_ok, up) ==
    /\ ipc = "idle"
    /\ op = "none"
    /\ \E search \in Search(qdrant, embedding_model, client_ok, limit, category) :
             LET r == SemanticSearch(Store(neo4j, up), embedding_processor, search)
             IN  /\ results' = r.results
                 /\ raised' = r.raised
                 /\ failed' = r.failed \cup FailedLookups(r.calls, up)
                 /\ qdrant_calls' = r.qdrant_calls
                 /\ graph_calls' = r.calls
    /\ op' = "semantic_search"
    /\ q_limit' = limit
    /\ UNCHANGED <<embedding_processor, embedding_model, q_weight, q_chunk,
                   sem_results, result_map, context>>
    /\ UNCHANGED <<cvars, ivars>>

\* semantic_search called on a QueryEngine directly.
SemanticSearchOp(limit, category) ==
    /\ \E client_ok \in BOOLEAN, up \in BOOLEAN :
          SemanticSearchCall(limit, category, client_ok, up)
    /\ UNCHANGED tvars

\* category_search (lines 82-88).
CategorySearchCall(category, limit, up) ==
    /\ ipc = "idle"
    /\ op = "none"
    /\ \E dscan \in Perms({d.id : d \in neo4j.documents}) :
          /\ results' = SearchByCategory(Store(neo4j, up), category, limit, dscan)
          /\ failed' = FailedLookups({"search_by_category"}, up)
    /\ raised' = FALSE
    /\ graph_calls' = {"search_by_category"}
    /\ op' = "category_search"
    /\ q_limit' = limit
    /\ UNCHANGED <<embedding_processor, embedding_model, q_weight, q_chunk,
                   sem_results, result_map, context, qdrant_calls>>
    /\ UNCHANGED <<cvars, ivars>>

\* category_search called on a QueryEngine directly.
CategorySearch(category, limit) ==
    /\ \E up \in BOOLEAN : CategorySearchCall(category, limit, up)
    /\ UNCHANGED tvars

ExpandContext(chunk_id, context_size) ==
    /\ ipc = "idle"
    /\ op = "none"
    /\ \E up \in BOOLEAN :
          LET r == ExpandContextResult(Store(neo4j, up), chunk_id, context_size)
          IN  /\ context' = r.context
              /\ graph_calls' = r.calls
              /\ failed' = FailedLookups(r.calls, up)
    /\ raised' = FALSE
    /\ op' = "expand_context"
    /\ q_limit' = context_size
    /\ q_chunk' = chunk_id
    /\ UNCHANGED <<embedding_processor, embedding_model, q_weight, sem_results,
                   result_map, results, qdrant_calls>>
    /\ UNCHANGED <<cvars, ivars, tvars>>

\* QueryEngine.get_all_categories (lines 233-241).
GetAllCategoriesOp ==
    /\ ipc = "idle"
    /\ op = "none"
    /\ \E up \in BOOLEAN, dscan \in Perms({d.id : d \in neo4j.documents}) :
          /\ results' = IF up THEN GetAllCategories(neo4j, dscan, 1) ELSE <<>>
          /\ failed' = FailedLookups({"get_all_categories"}, up)
    /\ raised' = FALSE
    /\ graph_calls' = {"get_all_categories"}
    /\ op' = "get_all_categories"
    /\ UNCHANGED <<embedding_processor, embedding_model, q_limit, q_weight, q_chunk,
                   sem_results, result_map, context, qdrant_calls>>
    /\ UNCHANGED <<cvars, ivars, tvars>>

\* What get_statistics of the QueryEngine returns and records
\* (lines 243-256): each manager gives its statistics, or {} when its
\* statement or request fails.
StatisticsOutcome(up, client_ok) ==
    /\ context' = {[neo4j |-> IF up THEN {GraphStatistics(neo4j)} ELSE {},
                    qdrant |-> IF client_ok THEN {VectorStatistics(qdrant)} ELSE {}]}
    /\ failed' = (IF up THEN {} ELSE {"get_statistics"})
                    \cup (IF client_ok THEN {} ELSE {"qdrant_get_statistics"})
    /\ raised' = FALSE
    /\ graph_calls' = {"get_statistics"}
    /\ qdrant_calls' = {"get_statistics"}
    /\ op' = "get_statistics"
    /\ UNCHANGED <<embedding_processor, embedding_model, q_limit, q_weight, q_chunk,
                   sem_results, result_map, results>>

\* get_statistics removing the points without a document from the
\* collection while it counts them.
GetStatisticsPurging ==
    /\ ipc = "idle"
    /\ op = "none"
    /\ \E up \in BOOLEAN, client_ok \in BOOLEAN : StatisticsOutcome(up, client_ok)
    /\ qdrant' = {p \in qdrant : Truthy(p.doc_id)}
    /\ UNCHANGED <<neo4j, next_uuid, next_doc, ipc, run_docs, run_chunks, run_status,
                   import_log, source>>
    /\ UNCHANGED <<cvars, tvars>>

\* QueryEngine.get_statistics.
GetStatistics ==
    /\ ipc = "idle"
    /\ op = "none"
    /\ \E up \in BOOLEAN, client_ok \in BOOLEAN : StatisticsOutcome(up, client_ok)
    /\ UNCHANGED <<cvars, ivars, tvars>>

\* main, lines 160-175, for a run in which no Neo4j statement fails: st
\* holds the stores and the identifiers used before the run, fail_at is the
\* upsert call that raises (0: none does).
ImportRun(st, files, fail_at) ==
    LET r == ProcessDirectory(files, 1, st.uuid, st.gen)
        g == CreateRelated(ChunkBatches(DocumentBatches(st.neo4j, r.all_docs, 1),
                                        r.all_chunks, 1))
        q == ImportChunksFrom(st.qdrant, r.all_chunks, AllEmbedded(r.all_chunks), 1,
                              <<>>, 0, fail_at)
    IN  IF r.all_docs = <<>> \/ r.all_chunks = <<>>
        THEN [neo4j |-> st.neo4j, qdrant |-> st.qdrant, uuid |-> r.uuid,
              gen |-> r.gen, status |-> "ok"]
        ELSE [neo4j |-> g, qdrant |-> q.points, uuid |-> r.uuid, gen |-> r.gen,
              status |-> IF q.raised THEN "qdrant_error" ELSE "ok"]

QueryFileLists ==
    {fs \in UNION {[1..k -> Files] : k \in 0..MaxQueryFiles} :
        ChunkCount(fs, 1) <= MaxUuid /\ NoIdCount(fs, 1) <= MaxGenDocs}

\* The stores the queries are made on: those two import runs leave that
\* start on empty stores, the first of the first k files.
QueryInit ==
    /\ ChunkerIdle
    /\ NoCall
    /\ embedding_processor \in BOOLEAN
    /\ embedding_model \in BOOLEAN
    /\ embedding_processor \/ embedding_model
    /\ \E files \in QueryFileLists, k \in 0..MaxQueryFiles, fail_1 \in {0, 1}, fail_2 \in {0, 1} :
          /\ k <= Len(files)
          /\ LET st0 == [neo4j |-> EmptyGraph, qdrant |-> {}, uuid |-> 1, gen |-> 0]
                 st1 == ImportRun(st0, SubSeq(files, 1, k), fail_1)
                 st2 == ImportRun(st1, SubSeq(files, k + 1, Len(files)), fail_2)
             IN  /\ neo4j = st2.neo4j
                 /\ qdrant = st2.qdrant
                 /\ run_status = st2.status
                 /\ next_uuid = st2.uuid
                 /\ next_doc = st2.gen
                 /\ import_log = [embed_failed |-> {},
                                  upsert_failed |-> st2.status = "qdrant_error"]
    /\ ipc = "idle"
    /\ run_docs = <<>>
    /\ run_chunks = <<>>
    /\ source = NoSource
    /\ ToolIdle

\* The caller has taken the outcome of the call.
QueryReturn ==
    /\ op # "none"
    /\ op' = "none"
    /\ q_limit' = 0
    /\ q_weight' = 0
    /\ sem_results' = <<>>
    /\ result_map' = <<>>
    /\ results' = <<>>
    /\ graph_calls' = {}
    /\ q_chunk' = 0
    /\ context' = {}
    /\ raised' = FALSE
    /\ failed' = {}
    /\ qdrant_calls' = {}
    /\ UNCHANGED <<embedding_processor, embedding_model>>
    /\ UNCHANGED <<cvars, ivars, tvars>>

QueryNext ==
    \/ \E limit \in 0..MaxLimit, category \in CategoryArgs, weight \in Weights :
           HybridSearch(limit, category, weight)
    \/ \E limit \in 0..MaxLimit, category \in CategoryArgs :
           SemanticSearchOp(limit, category)
    \/ \E category \in Categories, limit \in 0..MaxLimit :
           CategorySearch(category, limit)
    \/ \E chunk_id \in 1..(MaxUuid + 1), context_size \in ContextSizes :
           ExpandContext(chunk_id, context_size)
    \/ GetAllCategoriesOp
    \/ GetStatistics
    \/ QueryReturn

SpecQuery == QueryInit /\ [][QueryNext]_vars

(***************************************************************************)
(* The managers' handles, the QueryEngine constructor and the               *)
(* GraphRAGMCPTool.                                                          *)
(***************************************************************************)
\* Neo4jManager.connect (lines 23-47): a new driver.
Neo4jConnect ==
    /\ op = "none"
    /\ driver' = "open"
    /\ UNCHANGED <<client, model, tool, engine, response>>
    /\ UNCHANGED <<cvars, ivars, qvars>>

\* Neo4jManager.close (lines 49-53): the driver is closed and stays in
\* self.driver.
Neo4jClose ==
    /\ op = "none"
    /\ driver' = IF driver = "none" THEN "none" ELSE "closed"
    /\ UNCHANGED <<client, model, tool, engine, response>>
    /\ UNCHANGED <<cvars, ivars, qvars>>

\* QdrantManager.connect (lines 30-46).
QdrantConnect ==
    /\ op = "none"
    /\ client' = "open"
    /\ UNCHANGED <<driver, model, tool, engine, response>>
    /\ UNCHANGED <<cvars, ivars, qvars>>

\* QdrantManager.close (lines 48-54): self.client = None.
QdrantClose ==
    /\ op = "none"
    /\ client' = "none"
    /\ UNCHANGED <<driver, model, tool, engine, response>>
    /\ UNCHANGED <<cvars, ivars, qvars>>

\* _verify_connections (lines 23-31): a manager whose handle is false is
\* connected.
VerifiedDriver(d) == IF d = "none" THEN "open" ELSE d
VerifiedClient(c) == IF c = "none" THEN "open" ELSE c

\* QueryEngine(neo4j_manager, qdrant_manager, embedding_processor)
\* (lines 14-21).
NewQueryEngine ==
    /\ op = "none"
    /\ driver' = VerifiedDriver(driver)
    /\ client' = VerifiedClient(client)
    /\ engine' = [driver |-> VerifiedDriver(driver), client |-> VerifiedClient(client)]
    /\ UNCHANGED <<model, tool, response>>
    /\ UNCHANGED <<cvars, ivars, qvars>>

\* GraphRAGMCPTool() (_initialize_system, lines 84-103): the model is
\* loaded, new managers are connected and the QueryEngine is constructed.
ToolNew ==
    /\ op = "none"
    /\ tool = "none"
    /\ model' = TRUE
    /\ driver' = "open"
    /\ client' = "open"
    /\ engine' = [driver |-> "open", client |-> "open"]
    /\ tool' = "open"
    /\ UNCHANGED response
    /\ UNCHANGED <<cvars, ivars, qvars>>

\* GraphRAGMCPTool.close (lines 409-425): both managers are closed and
\* unload_model sets model and tokenizer to None.
ToolClose ==
    /\ op = "none"
    /\ tool # "none"
    /\ driver' = IF driver = "none" THEN "none" ELSE "closed"
    /\ client' = "none"
    /\ model' = FALSE
    /\ tool' = "closed"
    /\ UNCHANGED <<engine, response>>
    /\ UNCHANGED <<cvars, ivars, qvars>>

\* The search_type arguments of GraphRAGMCPTool.search.
SearchTypes == {"semantic", "hybrid", "category"}
\* semantic_weight of hybrid_search when it is not given (line 111), in
\* tenths.
DefaultWeight == 7

\* _format_search_results (lines 170-210): results is the length of the
\* formatted list; the search type is told from the keys of the records.
FormatSearchResults(rs) ==
    [results |-> Len(rs), result_count |-> Len(rs),
     search_type |-> IF \E i \in 1..Len(rs) : "semantic_score" \in DOMAIN rs[i]
                     THEN "hybrid" ELSE "category",
     error |-> FALSE]

\* The response of the except branch of search (lines 158-168).
ErrorResponse(search_type) ==
    [results |-> 0, result_count |-> 0, search_type |-> search_type, error |-> TRUE]

\* GraphRAGMCPTool.search (lines 124-168).  The vector client answers only
\* when it is there (client_ok) and the graph lookups run only on an open
\* driver (up).  A semantic or hybrid search calls get_embedding, which
\* loads the model when it is not loaded (embedding_processor.py 68-69);
\* load_ok says whether that load succeeds, and when it does not the
\* exception is caught in QdrantManager.search like a failure of the client.
ToolSearch(limit, category, search_type) ==
    /\ tool # "none"
    /\ \/ /\ search_type = "semantic"
          /\ \E client_ok \in BOOLEAN, up \in BOOLEAN, load_ok \in BOOLEAN :
                /\ client_ok => client = "open"
                /\ up => driver = "open"
                /\ model => load_ok
                /\ SemanticSearchCall(limit, category, client_ok /\ load_ok, up)
                /\ model' = load_ok
          /\ response' = FormatSearchResults(results')
       \/ /\ search_type = "category"
          /\ category # ""
          /\ \E up \in BOOLEAN :
                /\ up => driver = "open"
                /\ CategorySearchCall(category, limit, up)
          /\ model' = model
          /\ response' = FormatSearchResults(results')
       \/ /\ search_type = "category"
          /\ category = ""
          /\ ipc = "idle"
          /\ op = "none"
          /\ op' = "search_error"
          /\ q_limit' = limit
          /\ model' = model
          /\ response' = ErrorResponse(search_type)
          /\ UNCHANGED <<embedding_processor, embedding_model, q_weight, q_chunk,
                         sem_results, result_map, results, context, raised,
                         failed, qdrant_calls, graph_calls>>
          /\ UNCHANGED <<cvars, ivars>>
       \/ /\ search_type \notin {"semantic", "category"}
          /\ \E client_ok \in BOOLEAN, up \in BOOLEAN, load_ok \in BOOLEAN :
                /\ client_ok => client = "open"
                /\ up => driver = "open"
                /\ model => load_ok
                /\ HybridSearchCall(limit, category, DefaultWeight,
                                    client_ok /\ load_ok, up)
                /\ model' = load_ok
          /\ response' = FormatSearchResults(results')
    /\ UNCHANGED <<driver, client, tool, engine>>

\* The caller has taken the response.
ToolReturn ==
    /\ op # "none"
    /\ op' = "none"
    /\ q_limit' = 0
    /\ q_weight' = 0
    /\ sem_results' = <<>>
    /\ result_map' = <<>>
    /\ results' = <<>>
    /\ graph_calls' = {}
    /\ q_chunk' = 0
    /\ context' = {}
    /\ raised' = FALSE
    /\ failed' = {}
    /\ qdrant_calls' = {}
    /\ response' = NoResponse
    /\ UNCHANGED <<embedding_processor, embedding_model>>
    /\ UNCHANGED <<driver, client, model, tool, engine>>
    /\ UNCHANGED <<cvars, ivars>>

\* The files imported before the tool is used.
ToolFileLists ==
    {fs \in QueryFileLists :
        \A i \in 1..Len(fs) : fs[i].id \in {"a", "b"} /\ fs[i].n = 1}

\* The stores one import run leaves; the embedding processor is given to
\* the QueryEngine and the QdrantManager (lines 95-103).
ToolInit ==
    /\ ChunkerIdle
    /\ QueryIdle
    /\ ToolIdle
    /\ \E files \in ToolFileLists :
          LET st == ImportRun([neo4j |-> EmptyGraph, qdrant |-> {}, uuid |-> 1, gen |-> 0],
                              files, 0)
          IN  /\ neo4j = st.neo4j
              /\ qdrant = st.qdrant
              /\ run_status = st.status
              /\ next_uuid = st.uuid
              /\ next_doc = st.gen
    /\ import_log = NoImportLog
    /\ ipc = "idle"
    /\ run_docs = <<>>
    /\ run_chunks = <<>>
    /\ source = NoSource

ToolNext ==
    \/ Neo4jConnect
    \/ Neo4jClose
    \/ QdrantConnect
    \/ QdrantClose
    \/ NewQueryEngine
    \/ ToolNew
    \/ ToolClose
    \/ \E limit \in 0..MaxLimit, category \in CategoryArgs, search_type \in SearchTypes :
           ToolSearch(limit, category, search_type)
    \/ ToolReturn

SpecTool == ToolInit /\ [][ToolNext]_vars

(***************************************************************************)
(* Claims about the import.                                                *)
(***************************************************************************)
\* The Chunk nodes a Document is linked to by HAS_CHUNK.
ChunksOf(g, doc_id) == {c \in g.chunks : <<doc_id, c.id>> \in g.has_chunk}

\* C3 (position invariant): whenever an import run has ended normally, for
\* every Document the positions of the chunks attached to it by HAS_CHUNK
\* are exactly 0..n-1, each once.
C3_PositionsContiguous ==
    (ipc = "idle" /\ run_status = "ok") =>
        \A d \in neo4j.documents :
            LET cs == ChunksOf(neo4j, d.id)
            IN  /\ \A c1, c2 \in cs : c1.position = c2.position => c1 = c2
                /\ {c.position : c \in cs} = 0..(Cardinality(cs) - 1)

\* C4 (cross-store invariant): whenever an import run has ended after its
\* graph import completed, normally or by an error of import_chunks, every
\* chunk of the graph store has exactly one point with its identifier in
\* the vector index.
C4_EveryChunkHasOnePoint ==
    (ipc = "idle" /\ run_status \in {"ok", "qdrant_error"}) =>
        \A c \in neo4j.chunks : Cardinality({p \in qdrant : p.id = c.id}) = 1

(***************************************************************************)
(* Claims about hybrid_search.  final_score is in hundredths, the scores   *)
(* and the weight in tenths.                                               *)
(***************************************************************************)
\* The chunks at the first position of document doc_id.
FirstChunks(g, doc_id) ==
    {c \in ChunksOf(g, doc_id) : \A c2 \in ChunksOf(g, doc_id) : c.position <= c2.position}

\* The identifiers the graph expansion of this call can reach: the first
\* chunks of the documents related to a semantic result's document.
GraphReached ==
    {c.id : c \in UNION {FirstChunks(neo4j, rel[2]) :
                rel \in {x \in neo4j.related_to :
                            \E i \in 1..Len(sem_results) : sem_results[i].doc_id = x[1]}}}

C6_NoDuplicateIds ==
    op = "hybrid_search" =>
        \A i, j \in 1..Len(results) : results[i].id = results[j].id => i = j

\* C6 witness: a returned chunk that is a semantic result and is reached by
\* the graph expansion as well.
C6_Witness ==
    /\ op = "hybrid_search"
    /\ \E k \in 1..Len(results) :
          /\ results[k].id \in GraphReached
          /\ \E i \in 1..Len(sem_results) : sem_results[i].id = results[k].id

\* C7: in the returned list a result's final_score is at least that of
\* every result after it.
C7_SortedByFinalScore ==
    op = "hybrid_search" =>
        \A i, j \in 1..Len(results) :
            i < j => results[i].final_score >= results[j].final_score

\* C7 witness: a returned list in another order than the result map's,
\* with a graph entry above a semantic one.
C7_Witness ==
    /\ op = "hybrid_search"
    /\ \E i, j \in 1..Len(results) :
          /\ i < j
          /\ results[i].final_score > results[j].final_score
          /\ results[i].graph_score > 0
          /\ results[j].graph_score = 0
          /\ \E k1, k2 \in 1..Len(result_map) :
                k2 < k1 /\ result_map[k1] = results[i] /\ result_map[k2] = results[j]

\* C8: hybrid_search returns at most limit results.
C8_AtMostLimit ==
    op = "hybrid_search" => Len(results) <= q_limit

\* C8 witness: a call with a positive limit whose result map holds more
\* entries than the limit, semantic and graph ones.
C8_Witness ==
    /\ op = "hybrid_search"
    /\ q_limit > 0
    /\ Len(result_map) > q_limit
    /\ Len(results) = q_limit
    /\ \E k \in 1..Len(result_map) : result_map[k].graph_score > 0

\* C9: a result that is a semantic result and that the graph expansion does
\* not reach has final_score = semantic_score x semantic_weight and
\* graph_score 0.
C9_SemanticOnlyWeighted ==
    op = "hybrid_search" =>
        \A k \in 1..Len(results) :
            (/\ \E i \in 1..Len(sem_results) : sem_results[i].id = results[k].id
             /\ results[k].id \notin GraphReached)
                => /\ results[k].final_score = results[k].semantic_score * q_weight
                   /\ results[k].graph_score = 0

\* C9 witness: a returned semantic result with a score other than 0 that
\* the expansion does not reach, next to a returned graph entry.
C9_Witness ==
    /\ op = "hybrid_search"
    /\ \E k \in 1..Len(results) :
          /\ \E i \in 1..Len(sem_results) : sem_results[i].id = results[k].id
          /\ results[k].id \notin GraphReached
          /\ results[k].semantic_score > 0
    /\ \E k \in 1..Len(results) : results[k].graph_score > 0

\* C10: when semantic_search gives no result, hybrid_search returns the
\* empty list and has looked up no related document and no chunk of a
\* document.
C10_EmptySemanticShortCircuit ==
    (op = "hybrid_search" /\ sem_results = <<>>) =>
        /\ results = <<>>
        /\ "get_related_documents" \notin graph_calls
        /\ "get_document_chunks" \notin graph_calls

\* C10 witness: a call with a positive limit and no semantic result on
\* stores that hold related documents with chunks.
C10_Witness ==
    /\ op = "hybrid_search"
    /\ q_limit > 0
    /\ sem_results = <<>>
    /\ results = <<>>
    /\ \E rel \in neo4j.related_to :
          Truthy(rel[1]) /\ Truthy(rel[2]) /\ ChunksOf(neo4j, rel[2]) # {}

(***************************************************************************)
(* Claims about the failures of the QueryEngine's operations.              *)
(***************************************************************************)
\* The returned list is a list and the returned dict one dict.
WellFormed ==
    /\ DOMAIN results = 1..Len(results)
    /\ Cardinality(context) <= 1

\* C11, as claimed: when an adapter call made during semantic_search,
\* hybrid_search, category_search or expand_context has failed, the
\* operation raises nothing and returns an empty list or dict.
C11_FailureGivesEmpty ==
    (op # "none" /\ failed # {}) =>
        /\ raised = FALSE
        /\ results = <<>>
        /\ context = {}

\* C11, amended: semantic_search, hybrid_search, category_search and
\* expand_context raise nothing and return a well-formed list or dict,
\* whichever adapter calls failed; the result is empty when the failed call
\* is the vector search, search_by_category or get_chunk_context of
\* expand_context.
C11_NeverFaults ==
    op # "none" =>
        /\ raised = FALSE
        /\ WellFormed
        /\ "search" \in failed => results = <<>>
        /\ "search_by_category" \in failed => results = <<>>
        /\ (op = "expand_context" /\ "get_chunk_context" \in failed) => context = {}

\* C11 witness: semantic_search on a collection that holds points, called
\* with a positive limit, whose search raised for want of an embedding
\* model.
C11_Witness ==
    /\ op = "semantic_search"
    /\ q_limit > 0
    /\ qdrant # {}
    /\ embedding_processor
    /\ ~embedding_model
    /\ "search" \in failed
    /\ results = <<>>
    /\ ~raised

\* C12: without an embedding processor semantic_search returns [], raises
\* nothing, makes no search on the vector index and no lookup on the graph
\* store.
C12_NoEmbeddingProcessor ==
    (op = "semantic_search" /\ ~embedding_processor) =>
        /\ results = <<>>
        /\ raised = FALSE
        /\ qdrant_calls = {}
        /\ graph_calls = {}

\* C12 witness: such a call with a positive limit on a collection that
\* holds points, the vector manager having its embedding model.
C12_Witness ==
    /\ op = "semantic_search"
    /\ ~embedding_processor
    /\ embedding_model
    /\ q_limit > 0
    /\ qdrant # {}
    /\ results = <<>>
    /\ qdrant_calls = {}

(***************************************************************************)
(* Claims about expand_context and the NEXT chain.                         *)
(***************************************************************************)
\* The Chunk node chunk_id names, if there is one.
ChunkOfId(g, chunk_id) == {c \in g.chunks : c.id = chunk_id}

\* C15: for an existing chunk, expand_context(chunk_id, 0) returns a
\* context whose center is that chunk and whose previous and next lists
\* are empty.
C15_WindowZero ==
    (op = "expand_context" /\ q_limit = 0 /\ ChunkOfId(neo4j, q_chunk) # {}) =>
        \E r \in context :
            /\ r.center \in ChunkOfId(neo4j, q_chunk)
            /\ r.previous = <<>>
            /\ r.next = <<>>

\* C16: when chunk_id names no chunk of the graph store, expand_context
\* returns {}, raises nothing and looks up no document.
C16_NotFound ==
    (op = "expand_context" /\ ChunkOfId(neo4j, q_chunk) = {}) =>
        /\ context = {}
        /\ raised = FALSE
        /\ "get_document_by_chunk_id" \notin graph_calls
        /\ "get_document_by_id" \notin graph_calls

\* C16 witness: expand_context called with an identifier no chunk has, on a
\* store that holds documents and chunks.
C16_Witness ==
    /\ op = "expand_context"
    /\ ChunkOfId(neo4j, q_chunk) = {}
    /\ neo4j.has_chunk # {}
    /\ "get_chunk_context" \in graph_calls
    /\ context = {}

\* C17: after import_documents the NEXT edges among the chunks of a
\* document are exactly the pairs from the chunk at position p to the
\* chunk at position p + 1.
C17_NextChain ==
    ipc = "qdrant" =>
        \A d \in neo4j.documents :
            LET cs == ChunksOf(neo4j, d.id)
            IN  {e \in neo4j.next : \E c1, c2 \in cs : e = <<c1.id, c2.id>>}
                    = {<<c1.id, c2.id>> : <<c1, c2>> \in
                          {x \in cs \X cs : x[2].position = x[1].position + 1}}

\* C18: for an existing chunk whose owning Document is in the graph store,
\* the result of expand_context has a 'document' entry that is that
\* Document.
C18_OwnerAttached ==
    (/\ op = "expand_context"
     /\ ChunkOfId(neo4j, q_chunk) # {}
     /\ GetDocumentByChunkId(neo4j, q_chunk) # {}) =>
        \E r \in context : r.document = GetDocumentByChunkId(neo4j, q_chunk)

C20_EverySemanticResultMerged ==
    op = "hybrid_search" =>
        /\ \A i \in 1..Len(sem_results) :
              \E k \in 1..Len(result_map) :
                 /\ result_map[k].id = sem_results[i].id
                 /\ result_map[k].semantic_score = sem_results[i].score
                 /\ result_map[k].graph_score = 0
                 /\ result_map[k].final_score = sem_results[i].score * q_weight
        /\ sem_results # <<>> => result_map # <<>>

(***************************************************************************)
(* Claims about the chunker.                                               *)
(***************************************************************************)
\* Offset i of the text lies inside the [start, end) slice of an emitted chunk.
Covered(i) == \E k \in 1..Len(chunks) : chunks[k].start <= i /\ i < chunks[k].end

\* C1 (chunk coverage): when _chunk_text has returned for a non-empty text
\* with chunk_size = 50 and overlap = 10, every character of the text that
\* is no whitespace lies inside the [start, end) slice of an emitted chunk.
C1_ChunkCoverage ==
    (cpc = "done" /\ chunk_size = 50 /\ chunk_overlap = 10 /\ Len(text) > 0)
        => \A i \in 0..(Len(text) - 1) : ~IsSpace(text[i + 1]) => Covered(i)

\* C2 (single-chunk case): when _chunk_text has returned for a text that is
\* shorter than chunk_size and not blank, with 0 <= overlap < chunk_size,
\* it has emitted exactly one chunk, the trimmed input.
C2_SingleChunk ==
    (/\ cpc = "done"
     /\ Len(text) < chunk_size
     /\ 0 <= chunk_overlap /\ chunk_overlap < chunk_size
     /\ \E i \in 1..Len(text) : ~IsSpace(text[i]))
        => /\ Len(chunks) = 1
           /\ chunks[1].ts = StrippedSlice(text, 0, Len(text)).ts
           /\ chunks[1].te = StrippedSlice(text, 0, Len(text)).te

\* C13: in every iteration of _chunk_text the start offset strictly
\* increases, and the call returns.
C13_ProgressAndTermination ==
    /\ [][(cpc = "loop" /\ cpc' = "loop") => start' > start]_vars
    /\ <>(cpc = "done")

\* C13 witness: an iteration is about to run whose chosen end is not past
\* its start, after iterations that advanced the start.
C13_Witness ==
    /\ cpc = "loop"
    /\ 0 < start
    /\ start < Len(text)
    /\ ChosenEnd(text, start, chunk_size) <= start

\* C14: every chunk emitted is a non-empty string that neither starts nor
\* ends with whitespace.
C14_ChunksTrimmed ==
    \A k \in 1..Len(chunks) :
        /\ chunks[k].ts < chunks[k].te
        /\ ~IsSpace(text[chunks[k].ts + 1])
        /\ ~IsSpace(text[chunks[k].te])

\* C14 witness: a returned list of several chunks, one of them cut from a
\* slice that began with whitespace and one from a slice that ended with
\* it.
C14_Witness ==
    /\ cpc = "done"
    /\ Len(chunks) > 1
    /\ \E k \in 1..Len(chunks) : chunks[k].start < chunks[k].ts
    /\ \E k \in 1..Len(chunks) : chunks[k].te < Min(chunks[k].end, Len(text))

\* The offsets of the paragraph breaks of s that lie within ParagraphWindow
\* characters before or after the offset e.
BreaksNear(s, e) ==
    {i \in 0..(Len(s) - 2) :
        /\ s[i + 1] = "\n" /\ s[i + 2] = "\n"
        /\ e - ParagraphWindow <= i
        /\ i + 2 <= e + ParagraphWindow}

\* C21: whenever the proposed end (start + chunk_size) is not the text end
\* and a paragraph break lies within 100 characters before or after it,
\* the end chosen by _chunk_text is the offset just past such a paragraph
\* break, for every start and chunk_size.
C21_ParagraphSnapping ==
    (cpc = "loop" /\ start < Len(text) /\ start + chunk_size < Len(text)
        /\ BreaksNear(text, start + chunk_size) # {}) =>
        \E i \in BreaksNear(text, start + chunk_size) :
            ChosenEnd(text, start, chunk_size) = i + 2

(***************************************************************************)
(* Claims about import_chunks.                                              *)
(***************************************************************************)
\* C22: import_chunks raises to its caller if and only if a bulk upsert
\* call failed; a chunk whose embedding failed is skipped (no point of it
\* is uploaded) and every other chunk of the input is uploaded.
C22_PartialFailureTolerance ==
    (ipc = "idle" /\ run_status \in {"ok", "qdrant_error"}) =>
        /\ run_status = "qdrant_error" <=> import_log.upsert_failed
        /\ run_status = "ok" =>
              \A c \in neo4j.chunks :
                 c.id \in import_log.embed_failed => \A p \in qdrant : p.id # c.id

(***************************************************************************)
(* Claims about the scores and the order of hybrid_search.                 *)
(***************************************************************************)
\* The semantic results hybrid_search writes into the map (line 140).
MergedSemanticIds ==
    {sem_results[i].id : i \in {j \in 1..Len(sem_results) : Truthy(sem_results[j].doc_id)}}

\* C23: every hybrid_search result that entered the map only through graph
\* expansion has semantic_score 0, graph_score 0.5 and final_score
\* 0.5 x (1 - semantic_weight).
C23_GraphCandidateScore ==
    op = "hybrid_search" =>
        \A k \in 1..Len(results) :
            results[k].id \notin MergedSemanticIds =>
                /\ results[k].semantic_score = 0
                /\ results[k].graph_score = GraphScore
                /\ results[k].final_score = GraphScore * (One - q_weight)

\* C23 witness: a returned entry that came from graph expansion only, its
\* document related to the documents of two semantic hits.
C23_Witness ==
    /\ op = "hybrid_search"
    /\ \E k \in 1..Len(results) :
          /\ results[k].id \notin MergedSemanticIds
          /\ \E i, j \in 1..Len(sem_results) :
                /\ i # j
                /\ <<sem_results[i].doc_id, results[k].doc_id>> \in neo4j.related_to
                /\ <<sem_results[j].doc_id, results[k].doc_id>> \in neo4j.related_to

\* The place of an identifier in the result map: the order of first
\* insertion of the keys of the dict.
MapPlace(id) == CHOOSE k \in 1..Len(result_map) : result_map[k].id = id

\* C24: among hybrid_search results with equal final_score, the returned
\* order is the order in which their identifiers were first inserted into
\* the result map.
C24_TieBreakByInsertion ==
    op = "hybrid_search" =>
        \A a, b \in 1..Len(results) :
            (a < b /\ results[a].final_score = results[b].final_score) =>
                MapPlace(results[a].id) < MapPlace(results[b].id)

\* C24 witness: two returned entries with equal final_score in a call
\* whose map was not in descending order of final_score, so that the sort
\* moved an entry.
C24_Witness ==
    /\ op = "hybrid_search"
    /\ \E a, b \in 1..Len(results) :
          /\ a < b
          /\ results[a].final_score = results[b].final_score
    /\ \E i, j \in 1..Len(result_map) :
          i < j /\ result_map[i].final_score < result_map[j].final_score

(***************************************************************************)
(* Claims about process_document.                                           *)
(***************************************************************************)
\* C25: for a document whose front matter gives no category, a document
\* with no front matter at all included, process_document assigns the
\* default category (the name of the parent directory, or 'uncategorized'
\* when that is empty); the category is not left empty.
C25_CategoryDefault ==
    (source # NoSource /\ (~source.front \/ source.category = NoCategory)) =>
        /\ run_docs[1].category = DefaultCategory(source.dir)
        /\ run_docs[1].category # ""

(***************************************************************************)
(* Claims about the handles, the model and the tool.                        *)
(***************************************************************************)
\* C26: once GraphRAGMCPTool.close has been called the embedding model is
\* unloaded, and it is not loaded in any later state, whatever is invoked
\* on the closed tool.
C26_ModelUnloadedAfterClose == tool = "closed" => model = FALSE

\* C29: a QueryEngine is never left by its constructor over a closed
\* handle: after Neo4jManager.close() or QdrantManager.close() the
\* constructor finds the handle empty and reconnects the manager.
C29_NoEngineOverClosedHandle ==
    engine # NoEngine => (engine.driver = "open" /\ engine.client = "open")

\* The search type GraphRAGMCPTool.search performed, from the QueryEngine
\* method it called.
PerformedSearchType ==
    CASE op = "semantic_search" -> "semantic"
      [] op = "hybrid_search" -> "hybrid"
      [] op = "category_search" -> "category"
      [] OTHER -> "none"

\* C30: the metadata.search_type of the response of GraphRAGMCPTool.search
\* is the search type that was performed, for empty and non-empty result
\* lists, and metadata.result_count is the length of results.
C30_ReportedSearchType ==
    (tool # "none" /\ PerformedSearchType # "none") =>
        /\ response.search_type = PerformedSearchType
        /\ response.result_count = Len(results)
        /\ response.result_count = response.results

(***************************************************************************)
(* Claims about the stores.                                                 *)
(***************************************************************************)
\* C27: semantic_search, hybrid_search, category_search, expand_context,
\* get_all_categories and get_statistics leave the contents of the graph
\* store and of the vector index unchanged, on success and on failure.
C27_QueriesReadOnly == [][neo4j' = neo4j /\ qdrant' = qdrant]_vars

\* C27 witness: a query has been made on stores that hold documents and
\* points, and an adapter call of it failed.
C27_Witness ==
    /\ op \in {"semantic_search", "hybrid_search", "category_search",
               "expand_context", "get_all_categories", "get_statistics"}
    /\ failed # {}
    /\ neo4j.documents # {}
    /\ \E p \in qdrant : ~Truthy(p.doc_id)

\* C28: after import_documents, every RELATED_TO edge connects two distinct
\* Documents whose current categories are equal, and the relation is
\* symmetric, also after the re-import of a document identifier with a
\* changed category.
C28_RelatedToCategoryConsistent ==
    ipc = "qdrant" =>
        \A e \in neo4j.related_to :
            /\ e[1] # e[2]
            /\ \E d1, d2 \in neo4j.documents :
                  d1.id = e[1] /\ d2.id = e[2] /\ d1.category = d2.category
            /\ <<e[2], e[1]>> \in neo4j.related_to

====
